---- MODULE Spec2Model ----
(***************************************************************************)
(* Model of nwrfc-rs/src/connection.rs: the RfcConnection handle wrapper    *)
(* (new, for_dest, ping, get_function, Drop) and RfcConnectionBuilder       *)
(* (new, set_param, build), together with the native library entry points  *)
(* they call.  Strings are sequences of Unicode scalar values; encoded      *)
(* buffers are sequences of SAP_UC code units ending in a terminator.       *)
(***************************************************************************)
EXTENDS Integers, Sequences, FiniteSets, TLC

VARIABLES
    conns,      \* connection slot -> the RfcConnection value held there
    funcs,      \* function slot -> the RfcFunction value held there
    bld,        \* the RfcConnectionBuilder value under construction
    setLog,     \* history: the set_param calls made on the current builder
    native,     \* the native library's view of every connection handle
    opened,     \* history: connection slot -> the handle its open returned
    lastOp,     \* history: the last operation, its native calls and result
    owner,      \* connection slot -> the thread that owns the value
    busy        \* thread -> the native call it is blocked in

vars == <<conns, funcs, bld, setLog, native, opened, lastOp, owner, busy>>

----------------------------------------------------------------------------
(* Bounds of the model *)

MaxConns == 2       \* connections that can be opened in one run
MaxFuncs == 1       \* RfcFunction values alive at the same time
MaxSets == 2        \* set_param calls on one builder
MaxThreads == 2     \* threads a connection can be handed between

ConnIds == 1..MaxConns
FuncIds == 1..MaxFuncs
Handles == 1..MaxConns
Threads == 1..MaxThreads

----------------------------------------------------------------------------
(* Values of the program *)

\* the thread the program starts on
MainThread == 1

\* ptr::null_mut(): the null handle
NULL == 0

\* the single success status of the native status enumeration
RFC_OK == 0

\* the native statuses the model draws from: success and a failure
RfcRcs == {RFC_OK, 1}

\* the largest value of one fixed-width SAP_UC code unit
MaxCodeUnit == 65535

\* "dest"
DestKey == <<100, 101, 115, 116>>

\* "u", and a key with a character no single code unit can hold
UserKey == <<117>>
WideKey == <<128512>>

\* a value a caller hands to set_param: a number or a string
IntValue(n) == [kind |-> "int", int |-> n, str |-> <<>>]
StrValue(s) == [kind |-> "str", int |-> 0, str |-> s]

\* the (key, value) arguments set_param is called with: "dest" with the
\* number 0, with "0" and with "B"; "u" with "0" and with a string no code
\* unit sequence can hold; and a key no code unit sequence can hold
ParamInputs ==
    { <<DestKey, IntValue(0)>>,
      <<DestKey, StrValue(<<48>>)>>,
      <<DestKey, StrValue(<<66>>)>>,
      <<UserKey, StrValue(<<48>>)>>,
      <<UserKey, StrValue(<<128512>>)>>,
      <<WideKey, StrValue(<<48>>)>> }

\* the names a caller hands to get_function and for_dest
NameInputs == {<<69>>, <<128512>>}

----------------------------------------------------------------------------
(* uc::from_str and ToString *)

RECURSIVE digits(_)
digits(n) ==
    IF n < 10 THEN <<48 + n>> ELSE digits(n \div 10) \o <<48 + (n % 10)>>

\* T::to_string for the value types the model draws from
to_string(v) ==
    IF v.kind = "int"
    THEN (IF v.int < 0 THEN <<45>> \o digits(0 - v.int) ELSE digits(v.int))
    ELSE v.str

\* uc::from_str fails on a character outside the code-unit range
from_str_ok(s) == \A i \in 1..Len(s) : s[i] <= MaxCodeUnit

\* uc::from_str: one code unit per character, then the terminator
from_str(s) == [i \in 1..(Len(s) + 1) |-> IF i <= Len(s) THEN s[i] ELSE 0]

\* is_rc_err!
is_rc_err(rc) == rc # RFC_OK

\* check_rc_ok!: a failure status returns Err(err_info) from the caller
check_rc_ok(rc) == IF is_rc_err(rc) THEN "ErrInfo" ELSE "Ok"

----------------------------------------------------------------------------
(* Records of the history variables *)

NoString == <<>>

NativeCall(fn, handle, params, ret) ==
    [fn |-> fn, handle |-> handle, params |-> params, ret |-> ret]

Outcome(natives, result, handle, err) ==
    [natives |-> natives, result |-> result, handle |-> handle, err |-> err]

\* the memory an operation that takes no encoded buffers works on
NoMem == [supplied |-> <<>>, descriptors |-> <<>>, count |-> 0,
          atCall |-> <<>>, atExit |-> <<>>]

Op(op, conn, before, out, warned) ==
    [op |-> op, conn |-> conn, before |-> before, natives |-> out.natives,
     result |-> out.result, handle |-> out.handle, err |-> out.err,
     warned |-> warned,
     mem |-> IF "mem" \in DOMAIN out THEN out.mem ELSE NoMem]

NoOutcome == Outcome(<<>>, "Ok", NULL, NoString)

----------------------------------------------------------------------------
(* The state after construction *)

\* HashMap::new()
EmptyParams == [k \in {} |-> NoString]

\* a thread that is in no native call
Idle == [fn |-> "none", conn |-> 0, handle |-> NULL]

NoConn == [state |-> "none", handle |-> NULL]
NoFunc == [state |-> "none", conn |-> 0, desc |-> NULL, func |-> NULL]

Init ==
    /\ conns = [c \in ConnIds |-> NoConn]
    /\ funcs = [f \in FuncIds |-> NoFunc]
    /\ bld = [live |-> FALSE, params |-> EmptyParams]
    /\ setLog = <<>>
    /\ native = [h \in Handles |-> [st |-> "unissued", closes |-> 0]]
    /\ opened = [c \in ConnIds |-> NULL]
    /\ lastOp = Op("init", 0, NULL, NoOutcome, FALSE)
    /\ owner = [c \in ConnIds |-> MainThread]
    /\ busy = [t \in Threads |-> Idle]

----------------------------------------------------------------------------
(* The native library *)

FreeSlots == {c \in ConnIds : conns[c].state = "none"}
FirstFree == CHOOSE c \in FreeSlots : \A d \in FreeSlots : c <= d
Unissued == {h \in Handles : native[h].st = "unissued"}

\* what RfcOpenConnection can return: null, or a handle it never returned
RfcOpenConnection ==
    {NULL} \cup {h \in Unissued : \A g \in Unissued : h <= g}

\* what RfcGetFunctionDesc and RfcCreateFunction can return: null or a handle
FuncHandles == {NULL, 1}

\* the library's record of a handle after the calls of one operation
NativeAfter(natives) ==
    [h \in Handles |->
        LET issued == \E i \in 1..Len(natives) :
                natives[i].fn = "RfcOpenConnection" /\ natives[i].ret = h
            closed == Cardinality({i \in 1..Len(natives) :
                natives[i].fn = "RfcCloseConnection" /\ natives[i].handle = h})
        IN [st |-> IF closed > 0 THEN "closed"
                   ELSE IF issued THEN "open" ELSE native[h].st,
            closes |-> native[h].closes + closed]]

----------------------------------------------------------------------------
(* RfcConnection *)

\* RfcConnection::new without the is_null test on the returned handle
RfcConnection_new_nocheck(params, handle) ==
    Outcome(<<NativeCall("RfcOpenConnection", NULL,
                [i \in 1..Len(params) |-> <<params[i][1], params[i][2]>>],
                handle)>>,
            "Ok", handle, NoString)

\* RfcConnection::new calling the native open again after a null handle
RfcConnection_new_retry(params, handle) ==
    LET call(ret) == NativeCall("RfcOpenConnection", NULL,
            [i \in 1..Len(params) |-> <<params[i][1], params[i][2]>>], ret)
    IN IF handle = NULL
       THEN Outcome(<<call(NULL), call(NULL)>>, "ErrInfo", NULL, NoString)
       ELSE Outcome(<<call(handle)>>, "Ok", handle, NoString)

\* the heap address of buffer j (1: name, 2: value) of pair i of a
\* Vec<(Vec<SAP_UC>, Vec<SAP_UC>)>; moving the outer Vec moves no buffer
BufferAddr(i, j) == 2 * (i - 1) + j

\* what a read through a pointer to a freed buffer yields
Dangling == <<-1>>

\* RfcConnection::new taking the addresses of buffers that are dropped
\* before the native open is called
RfcConnection_new_dangling(params, handle) ==
    LET n == Len(params)
        heap == [a \in 1..(2 * n) |->
            [alloc |-> FALSE, data |-> params[(a + 1) \div 2][2 - (a % 2)]]]
        conn_params == [i \in 1..n |->
            [name |-> BufferAddr(i, 1), value |-> BufferAddr(i, 2)]]
        call == NativeCall("RfcOpenConnection", NULL,
            [i \in 1..n |-> <<Dangling, Dangling>>], handle)
        mem == [supplied |-> params, descriptors |-> conn_params,
                count |-> n, atCall |-> heap, atExit |-> heap]
    IN [natives |-> <<call>>, result |-> IF handle = NULL THEN "ErrInfo" ELSE "Ok",
        handle |-> handle, err |-> NoString, mem |-> mem]

\* RfcConnection::new: params are the encoded (name, value) buffers, handle
\* is what the native open call returns.  The buffers are owned by params,
\* which lives until new returns; conn_params holds their addresses.
RfcConnection_new(params, handle) ==
    LET n == Len(params)
        heap == [a \in 1..(2 * n) |->
            [alloc |-> TRUE, data |-> params[(a + 1) \div 2][2 - (a % 2)]]]
        as_ptr(i, j) == BufferAddr(i, j)
        conn_params == [i \in 1..n |->
            [name |-> as_ptr(i, 1), value |-> as_ptr(i, 2)]]
        deref(p) == IF heap[p].alloc THEN heap[p].data ELSE Dangling
        call == NativeCall("RfcOpenConnection", NULL,
            [i \in 1..Len(conn_params) |->
                <<deref(conn_params[i].name), deref(conn_params[i].value)>>],
            handle)
        mem == [supplied |-> params, descriptors |-> conn_params,
                count |-> Len(conn_params), atCall |-> heap,
                atExit |-> [a \in DOMAIN heap |-> [heap[a] EXCEPT !.alloc = FALSE]]]
        out == IF handle = NULL
               THEN Outcome(<<call>>, "ErrInfo", NULL, NoString)
               ELSE Outcome(<<call>>, "Ok", handle, NoString)
    IN [natives |-> out.natives, result |-> out.result, handle |-> out.handle,
        err |-> out.err, mem |-> mem]

\* a for_dest that names its single parameter "u" instead of "dest"
for_dest_result_other_key(name, handle) ==
    IF ~from_str_ok(name) THEN Outcome(<<>>, "ErrEncoding", NULL, name)
    ELSE RfcConnection_new(<< <<from_str(UserKey), from_str(name)>> >>, handle)

\* RfcConnection::for_dest
for_dest_result(name, handle) ==
    IF ~from_str_ok(DestKey) THEN Outcome(<<>>, "ErrEncoding", NULL, DestKey)
    ELSE IF ~from_str_ok(name) THEN Outcome(<<>>, "ErrEncoding", NULL, name)
    ELSE RfcConnection_new(<< <<from_str(DestKey), from_str(name)>> >>, handle)

\* the Ok(Self { handle }) of an open is moved into a free slot
Produce(op, out) ==
    /\ conns' = IF out.result = "Ok"
                THEN [conns EXCEPT ![FirstFree] =
                        [state |-> "live", handle |-> out.handle]]
                ELSE conns
    /\ native' = NativeAfter(out.natives)
    /\ opened' = IF out.result = "Ok"
                 THEN [opened EXCEPT ![FirstFree] = out.handle]
                 ELSE opened
    /\ lastOp' = Op(op,
                    IF out.result = "Ok"
                    THEN FirstFree
                    ELSE 0,
                    NULL, out, FALSE)

for_dest ==
    /\ FreeSlots # {}
    /\ \E name \in NameInputs, handle \in RfcOpenConnection :
          Produce("for_dest", for_dest_result(name, handle))
    /\ UNCHANGED <<funcs, bld, setLog, owner, busy>>

\* a ping that reads the status the wrong way round
ping_result_inverted(handle, rc) ==
    Outcome(<<NativeCall("RfcPing", handle, <<>>, rc)>>,
            IF is_rc_err(rc) THEN "Ok" ELSE "ErrInfo", handle, NoString)

\* a ping that gives up the handle when the native ping fails
ping_result_invalidate(handle, rc) ==
    Outcome(<<NativeCall("RfcPing", handle, <<>>, rc)>>, check_rc_ok(rc),
            IF is_rc_err(rc) THEN NULL ELSE handle, NoString)

\* RfcConnection::ping on a connection holding handle
ping_result(handle, rc) ==
    Outcome(<<NativeCall("RfcPing", handle, <<>>, rc)>>, check_rc_ok(rc),
            handle, NoString)

ping(c) ==
    /\ conns[c].state = "live"
    /\ \E rc \in RfcRcs :
          LET out == ping_result(conns[c].handle, rc)
          IN /\ conns' = [conns EXCEPT ![c].handle = out.handle]
             /\ native' = NativeAfter(out.natives)
             /\ lastOp' = Op("ping", c, conns[c].handle, out, FALSE)
    /\ UNCHANGED <<funcs, bld, setLog, opened, owner, busy>>

\* get_function without the is_null test on the created function handle
get_function_result_nocheck(handle, name, desc_handle, func_handle) ==
    LET lookup == NativeCall("RfcGetFunctionDesc", handle, <<from_str(name)>>, desc_handle)
        create == NativeCall("RfcCreateFunction", NULL, <<desc_handle>>, func_handle)
    IN IF ~from_str_ok(name) THEN Outcome(<<>>, "ErrEncoding", handle, name)
       ELSE IF desc_handle = NULL
       THEN Outcome(<<lookup>>, "ErrInfo", handle, NoString)
       ELSE Outcome(<<lookup, create>>, "Ok", handle, NoString)

\* a get_function that goes on to create the function after a failed lookup
get_function_result_no_shortcircuit(handle, name, desc_handle, func_handle) ==
    LET lookup == NativeCall("RfcGetFunctionDesc", handle, <<from_str(name)>>, desc_handle)
        create == NativeCall("RfcCreateFunction", NULL, <<desc_handle>>, func_handle)
    IN IF ~from_str_ok(name) THEN Outcome(<<>>, "ErrEncoding", handle, name)
       ELSE IF desc_handle = NULL \/ func_handle = NULL
       THEN Outcome(<<lookup, create>>, "ErrInfo", handle, NoString)
       ELSE Outcome(<<lookup, create>>, "Ok", handle, NoString)

\* a get_function that looks the name up before it is known to encode
get_function_result_encode_late(handle, name, desc_handle, func_handle) ==
    LET lookup == NativeCall("RfcGetFunctionDesc", handle, <<from_str(name)>>, desc_handle)
        create == NativeCall("RfcCreateFunction", NULL, <<desc_handle>>, func_handle)
    IN IF desc_handle = NULL
       THEN Outcome(<<lookup>>, "ErrInfo", handle, NoString)
       ELSE IF ~from_str_ok(name) THEN Outcome(<<lookup>>, "ErrEncoding", handle, name)
       ELSE IF func_handle = NULL
       THEN Outcome(<<lookup, create>>, "ErrInfo", handle, NoString)
       ELSE Outcome(<<lookup, create>>, "Ok", handle, NoString)

\* a get_function that closes the connection when the lookup fails
get_function_result_close_on_fail(handle, name, desc_handle, func_handle) ==
    LET lookup == NativeCall("RfcGetFunctionDesc", handle, <<from_str(name)>>, desc_handle)
        create == NativeCall("RfcCreateFunction", NULL, <<desc_handle>>, func_handle)
        close == NativeCall("RfcCloseConnection", handle, <<>>, RFC_OK)
    IN IF ~from_str_ok(name) THEN Outcome(<<>>, "ErrEncoding", handle, name)
       ELSE IF desc_handle = NULL
       THEN Outcome(<<lookup, close>>, "ErrInfo", NULL, NoString)
       ELSE IF func_handle = NULL
       THEN Outcome(<<lookup, create>>, "ErrInfo", handle, NoString)
       ELSE Outcome(<<lookup, create>>, "Ok", handle, NoString)

\* RfcConnection::get_function on a connection holding handle; desc_handle
\* and func_handle are what the two native calls return
get_function_result(handle, name, desc_handle, func_handle) ==
    LET uc_name == from_str(name)
        lookup == NativeCall("RfcGetFunctionDesc", handle, <<uc_name>>, desc_handle)
        create == NativeCall("RfcCreateFunction", NULL, <<desc_handle>>, func_handle)
    IN IF ~from_str_ok(name) THEN Outcome(<<>>, "ErrEncoding", handle, name)
       ELSE IF desc_handle = NULL
       THEN Outcome(<<lookup>>, "ErrInfo", handle, NoString)
       ELSE IF func_handle = NULL
       THEN Outcome(<<lookup, create>>, "ErrInfo", handle, NoString)
       ELSE Outcome(<<lookup, create>>, "Ok", handle, NoString)

FreeFuncs == {f \in FuncIds : funcs[f].state = "none"}

get_function(c) ==
    /\ conns[c].state = "live"
    /\ FreeFuncs # {}
    /\ \E name \in NameInputs, desc_handle \in FuncHandles, func_handle \in FuncHandles :
          LET out == get_function_result(conns[c].handle, name, desc_handle, func_handle)
              f == CHOOSE f \in FreeFuncs : \A g \in FreeFuncs : f <= g
          IN /\ funcs' = IF out.result = "Ok"
                         THEN [funcs EXCEPT ![f] = [state |-> "live", conn |-> c,
                                  desc |-> desc_handle, func |-> func_handle]]
                         ELSE funcs
             /\ conns' = [conns EXCEPT ![c].handle = out.handle]
             /\ native' = NativeAfter(out.natives)
             /\ lastOp' = Op("get_function", c, conns[c].handle, out, FALSE)
    /\ UNCHANGED <<bld, setLog, opened, owner, busy>>

\* a function value that holds no borrow of its connection
Borrowers_none(c) == {}

\* the RfcFunction<'conn> values that borrow connection c
Borrowers(c) == {f \in FuncIds : funcs[f].state = "live" /\ funcs[f].conn = c}

\* the RfcFunction goes out of scope, ending its borrow
drop_function(f) ==
    /\ funcs[f].state = "live"
    /\ funcs' = [funcs EXCEPT ![f] = NoFunc]
    /\ lastOp' = Op("drop_function", funcs[f].conn, conns[funcs[f].conn].handle,
                    NoOutcome, FALSE)
    /\ UNCHANGED <<conns, bld, setLog, native, opened, owner, busy>>

\* Drop::drop without the final self.handle = ptr::null_mut()
drop_result_keep_handle(handle, rc) ==
    IF handle # NULL
    THEN [natives |-> <<NativeCall("RfcCloseConnection", handle, <<>>, rc)>>,
          warned |-> is_rc_err(rc), handle |-> handle]
    ELSE [natives |-> <<>>, warned |-> FALSE, handle |-> handle]

\* Drop::drop leaving early, handle untouched, when the close fails
drop_result_early_return(handle, rc) ==
    IF handle # NULL
    THEN [natives |-> <<NativeCall("RfcCloseConnection", handle, <<>>, rc)>>,
          warned |-> is_rc_err(rc),
          handle |-> IF is_rc_err(rc) THEN handle ELSE NULL]
    ELSE [natives |-> <<>>, warned |-> FALSE, handle |-> handle]

\* Drop::drop forgetting the native close
drop_result_no_close(handle, rc) ==
    [natives |-> <<>>, warned |-> FALSE, handle |-> NULL]

\* Drop::drop on a connection holding handle; rc is what the native close
\* call returns
drop_result(handle, rc) ==
    IF handle # NULL
    THEN [natives |-> <<NativeCall("RfcCloseConnection", handle, <<>>, rc)>>,
          warned |-> is_rc_err(rc), handle |-> NULL]
    ELSE [natives |-> <<>>, warned |-> FALSE, handle |-> handle]

\* the destructor runs when the owner goes away, and may be run again on the
\* same value (the second run sees what the first left)
drop(c) ==
    /\ conns[c].state # "none"
    /\ Borrowers(c) = {}
    /\ \E rc \in RfcRcs :
          LET d == drop_result(conns[c].handle, rc)
          IN /\ conns' = [conns EXCEPT ![c] = [state |-> "released", handle |-> d.handle]]
             /\ native' = NativeAfter(d.natives)
             /\ lastOp' = Op("drop", c, conns[c].handle,
                             Outcome(d.natives, "Unit", d.handle, NoString), d.warned)
    /\ UNCHANGED <<funcs, bld, setLog, opened, owner, busy>>

----------------------------------------------------------------------------
(* RfcConnectionBuilder *)

\* RfcConnection::builder, RfcConnectionBuilder::new
builder ==
    /\ bld' = [live |-> TRUE, params |-> EmptyParams]
    /\ setLog' = <<>>
    /\ lastOp' = Op("builder", 0, NULL, NoOutcome, FALSE)
    /\ UNCHANGED <<conns, funcs, native, opened, owner, busy>>

\* an insert that keeps the value already stored for the key
insert_keep_first(params, key, value) ==
    [k \in (DOMAIN params) \cup {key} |->
        IF k \in DOMAIN params THEN params[k] ELSE value]

\* HashMap::insert
insert(params, key, value) ==
    [k \in (DOMAIN params) \cup {key} |-> IF k = key THEN value ELSE params[k]]

\* a set_param that stores the debug form of the value, which quotes text
set_param_debug(key, value) ==
    /\ bld.live
    /\ Len(setLog) < MaxSets
    /\ bld' = [bld EXCEPT !.params = insert(bld.params, key,
                  IF value.kind = "str" THEN <<34>> \o value.str \o <<34>>
                  ELSE to_string(value))]
    /\ setLog' = Append(setLog, [key |-> key, value |-> value])
    /\ lastOp' = Op("set_param", 0, NULL, NoOutcome, FALSE)
    /\ UNCHANGED <<conns, funcs, native, opened, owner, busy>>

\* RfcConnectionBuilder::set_param
set_param(key, value) ==
    /\ bld.live
    /\ Len(setLog) < MaxSets
    /\ bld' = [bld EXCEPT !.params = insert(bld.params, key, to_string(value))]
    /\ setLog' = Append(setLog, [key |-> key, value |-> value])
    /\ lastOp' = Op("set_param", 0, NULL, NoOutcome, FALSE)
    /\ UNCHANGED <<conns, funcs, native, opened, owner, busy>>

\* the orders in which HashMap::into_iter can yield the keys
Orders(keys) ==
    {o \in [1..Cardinality(keys) -> keys] :
        \A i, j \in 1..Cardinality(keys) : i # j => o[i] # o[j]}

\* a build that leaves out the pairs that fail to encode and connects anyway
build_result_skip_failed(params, order, handle) ==
    LET good == SelectSeq(order,
            LAMBDA k : from_str_ok(k) /\ from_str_ok(params[k]))
    IN RfcConnection_new(
           [i \in 1..Len(good) |-> <<from_str(good[i]), from_str(params[good[i]])>>],
           handle)

\* RfcConnectionBuilder::build with the map iterated in the given order
build_result(params, order, handle) ==
    LET n == Len(order)
        failed(i) == ~from_str_ok(order[i]) \/ ~from_str_ok(params[order[i]])
        bad == {i \in 1..n : failed(i)}
        first == CHOOSE i \in bad : \A j \in bad : i <= j
        encoded == [i \in 1..n |-> <<from_str(order[i]), from_str(params[order[i]])>>]
    IN IF bad # {}
       THEN Outcome(<<>>, "ErrEncoding", NULL,
                IF ~from_str_ok(order[first]) THEN order[first]
                ELSE params[order[first]])
       ELSE RfcConnection_new(encoded, handle)

build ==
    /\ bld.live
    /\ FreeSlots # {}
    /\ \E order \in Orders(DOMAIN bld.params), handle \in RfcOpenConnection :
          Produce("build", build_result(bld.params, order, handle))
    /\ bld' = [live |-> FALSE, params |-> EmptyParams]
    /\ UNCHANGED <<funcs, setLog, owner, busy>>

----------------------------------------------------------------------------

Next ==
    \/ builder
    \/ \E kv \in ParamInputs : set_param(kv[1], kv[2])
    \/ build
    \/ for_dest
    \/ \E c \in ConnIds : ping(c)
    \/ \E c \in ConnIds : get_function(c)
    \/ \E f \in FuncIds : drop_function(f)
    \/ \E c \in ConnIds : drop(c)

Spec == Init /\ [][Next]_vars

----------------------------------------------------------------------------
(* Threads: RfcConnection is Send and not Sync.  Every native call blocks   *)
(* the calling thread from the call to its return.                         *)

\* an RfcConnection that every thread may use through a shared reference
Owns_shared(c, t) == TRUE

\* the thread that may use connection c: the one that owns the value
Owns(c, t) == owner[c] = t

\* RfcConnection::for_dest run by thread t, which owns the result
thread_open(t) ==
    /\ busy[t] = Idle
    /\ FreeSlots # {}
    /\ \E name \in NameInputs, handle \in RfcOpenConnection :
          LET out == for_dest_result(name, handle)
          IN /\ Produce("for_dest", out)
             /\ owner' = IF out.result = "Ok"
                         THEN [owner EXCEPT ![FirstFree] = t]
                         ELSE owner
    /\ UNCHANGED <<funcs, bld, setLog, busy>>

\* the owner moves connection c to thread t
send(c, t) ==
    /\ conns[c].state = "live"
    /\ owner[c] # t
    /\ busy[owner[c]] = Idle
    /\ Borrowers(c) = {}
    /\ owner' = [owner EXCEPT ![c] = t]
    /\ lastOp' = Op("send", c, conns[c].handle, NoOutcome, FALSE)
    /\ UNCHANGED <<conns, funcs, bld, setLog, native, opened, busy>>

\* thread t enters the native call fn with the handle of connection c
Enter(t, c, fn) ==
    /\ busy[t] = Idle
    /\ Owns(c, t)
    /\ conns[c].state = "live"
    /\ busy' = [busy EXCEPT ![t] = [fn |-> fn, conn |-> c, handle |-> conns[c].handle]]
    /\ UNCHANGED <<conns, funcs, bld, setLog, native, opened, lastOp, owner>>

\* RfcConnection::ping, from the call of RfcPing to its return
call_ping(t, c) == Enter(t, c, "RfcPing")

return_ping(t) ==
    /\ busy[t].fn = "RfcPing"
    /\ \E rc \in RfcRcs :
          LET c == busy[t].conn
              out == ping_result(busy[t].handle, rc)
          IN /\ conns' = [conns EXCEPT ![c].handle = out.handle]
             /\ native' = NativeAfter(out.natives)
             /\ lastOp' = Op("ping", c, busy[t].handle, out, FALSE)
    /\ busy' = [busy EXCEPT ![t] = Idle]
    /\ UNCHANGED <<funcs, bld, setLog, opened, owner>>

\* the threads that are inside a get_function
Looking == {t \in Threads : busy[t].fn = "RfcGetFunctionDesc"}

\* RfcConnection::get_function, from the call of RfcGetFunctionDesc on
call_get_function(t, c) ==
    /\ Cardinality(Looking) < Cardinality(FreeFuncs)
    /\ Enter(t, c, "RfcGetFunctionDesc")

return_get_function(t) ==
    /\ busy[t].fn = "RfcGetFunctionDesc"
    /\ \E name \in {n \in NameInputs : from_str_ok(n)},
          desc_handle \in FuncHandles, func_handle \in FuncHandles :
          LET c == busy[t].conn
              out == get_function_result(busy[t].handle, name, desc_handle, func_handle)
              f == CHOOSE f \in FreeFuncs : \A g \in FreeFuncs : f <= g
          IN /\ funcs' = IF out.result = "Ok"
                         THEN [funcs EXCEPT ![f] = [state |-> "live", conn |-> c,
                                  desc |-> desc_handle, func |-> func_handle]]
                         ELSE funcs
             /\ conns' = [conns EXCEPT ![c].handle = out.handle]
             /\ native' = NativeAfter(out.natives)
             /\ lastOp' = Op("get_function", c, busy[t].handle, out, FALSE)
    /\ busy' = [busy EXCEPT ![t] = Idle]
    /\ UNCHANGED <<bld, setLog, opened, owner>>

\* Drop::drop of a live connection, from the call of RfcCloseConnection on
call_drop(t, c) ==
    /\ Borrowers(c) = {}
    /\ conns[c].handle # NULL
    /\ Enter(t, c, "RfcCloseConnection")

return_drop(t) ==
    /\ busy[t].fn = "RfcCloseConnection"
    /\ \E rc \in RfcRcs :
          LET c == busy[t].conn
              d == drop_result(busy[t].handle, rc)
          IN /\ conns' = [conns EXCEPT ![c] = [state |-> "released", handle |-> d.handle]]
             /\ native' = NativeAfter(d.natives)
             /\ lastOp' = Op("drop", c, busy[t].handle,
                             Outcome(d.natives, "Unit", d.handle, NoString), d.warned)
    /\ busy' = [busy EXCEPT ![t] = Idle]
    /\ UNCHANGED <<funcs, bld, setLog, opened, owner>>

\* a function value goes away on the thread that owns its connection
thread_drop_function(f) ==
    /\ funcs[f].state = "live"
    /\ busy[owner[funcs[f].conn]] = Idle
    /\ drop_function(f)

NextThreads ==
    \/ \E t \in Threads : thread_open(t)
    \/ \E c \in ConnIds, t \in Threads : send(c, t)
    \/ \E t \in Threads, c \in ConnIds : call_ping(t, c)
    \/ \E t \in Threads : return_ping(t)
    \/ \E t \in Threads, c \in ConnIds : call_get_function(t, c)
    \/ \E t \in Threads : return_get_function(t)
    \/ \E t \in Threads, c \in ConnIds : call_drop(t, c)
    \/ \E t \in Threads : return_drop(t)
    \/ \E f \in FuncIds : thread_drop_function(f)

SpecThreads == Init /\ [][NextThreads]_vars

\* the life of a connection from its open, by name or from a builder left
\* without parameters, to its release
NextLife ==
    \/ builder
    \/ build
    \/ for_dest
    \/ \E c \in ConnIds : ping(c)
    \/ \E c \in ConnIds : get_function(c)
    \/ \E f \in FuncIds : drop_function(f)
    \/ \E c \in ConnIds : drop(c)

\* the last function value that borrows connection c goes away
LastBorrowEnds(c) ==
    \E f \in FuncIds : Borrowers(c) = {f} /\ drop_function(f)

\* The destructor of a connection runs when its owner's scope ends, and the
\* scope ends: every function value goes away, the functions that borrow
\* the connection do not outlast each other for ever, and once nothing
\* borrows it the owner lets it go.
FairSpec ==
    /\ Init /\ [][NextLife]_vars
    /\ \A f \in FuncIds : WF_vars(drop_function(f))
    /\ \A c \in ConnIds : SF_vars(LastBorrowEnds(c))
    /\ \A c \in ConnIds : SF_vars(drop(c))

----------------------------------------------------------------------------
(* Properties *)

IsOpen(op) == op \in {"build", "for_dest"}

\* the native calls of the last operation made through entry point fn
CallsTo(fn) == SelectSeq(lastOp.natives, LAMBDA call : call.fn = fn)

\* C1: the native close is invoked at most once on every handle the native
\* open returned: a release of a connection holding a handle makes the one
\* close call on it and leaves the handle null, and a release of a connection
\* whose handle is already null makes no native call.
C1_CloseAtMostOnce ==
    /\ \A h \in Handles : native[h].closes <= 1
    /\ lastOp.op = "drop" =>
          IF lastOp.before # NULL
          THEN /\ Len(lastOp.natives) = 1
               /\ lastOp.natives[1].fn = "RfcCloseConnection"
               /\ lastOp.natives[1].handle = lastOp.before
               /\ conns[lastOp.conn].handle = NULL
          ELSE lastOp.natives = <<>>

\* a connection whose handle was closed is released a second time
C1_Witness ==
    /\ lastOp.op = "drop"
    /\ lastOp.before = NULL
    /\ opened[lastOp.conn] # NULL
    /\ native[opened[lastOp.conn]].closes = 1

\* C2: a connection that exists and has not been released holds a non-null
\* handle, and the only change a connection's handle ever undergoes is the
\* one from non-null to null made by its release.
C2_HandleLifetime ==
    /\ [](\A c \in ConnIds :
            /\ conns[c].state = "live" =>
                  conns[c].handle # NULL /\ conns[c].handle = opened[c]
            /\ conns[c].state = "released" => conns[c].handle = NULL)
    /\ [][\A c \in ConnIds :
            (conns[c].state # "none" /\ conns'[c].handle # conns[c].handle) =>
                /\ lastOp'.op = "drop"
                /\ lastOp'.conn = c
                /\ conns[c].handle # NULL
                /\ conns'[c].handle = NULL]_vars

\* the release of a live connection has turned its handle from non-null to null
C2_Witness ==
    /\ lastOp.op = "drop"
    /\ lastOp.before # NULL
    /\ conns[lastOp.conn].state = "released"
    /\ conns[lastOp.conn].handle = NULL

\* C3: while a function obtained from a connection is alive, that
\* connection is alive, its handle is non-null and the native close has
\* not been called on it.
C3_FunctionWithinConnection ==
    \A f \in FuncIds :
        funcs[f].state = "live" =>
            LET c == funcs[f].conn
            IN /\ conns[c].state = "live"
               /\ conns[c].handle \in Handles
               /\ native[conns[c].handle].st = "open"
               /\ native[conns[c].handle].closes = 0

\* a function is alive while another connection has already been released
C3_Witness ==
    /\ \E f \in FuncIds : funcs[f].state = "live"
    /\ \E c \in ConnIds : conns[c].state = "released"

\* C4: an open returns a connection exactly when the native open returned
\* a non-null handle, and that connection holds that handle; on a null
\* handle the result is the error info and no connection is produced, so
\* there are as many connections as handles the native open has returned.
C4_OpenIffHandle ==
    /\ (IsOpen(lastOp.op) /\ lastOp.natives # <<>>) =>
          /\ lastOp.result = "Ok" <=> lastOp.natives[1].ret # NULL
          /\ lastOp.natives[1].ret = NULL =>
                lastOp.result = "ErrInfo" /\ lastOp.conn = 0
    /\ (IsOpen(lastOp.op) /\ lastOp.result = "Ok") =>
          /\ lastOp.natives # <<>>
          /\ lastOp.conn \in ConnIds
          /\ conns[lastOp.conn] =
                [state |-> "live", handle |-> lastOp.natives[1].ret]
    /\ Cardinality({c \in ConnIds : conns[c].state # "none"})
          = Cardinality({h \in Handles : native[h].st # "unissued"})

\* the native open returns null after an earlier open produced a connection
C4_Witness ==
    /\ lastOp.op = "build"
    /\ lastOp.natives # <<>>
    /\ lastOp.natives[1].ret = NULL
    /\ \E c \in ConnIds : conns[c].state = "live"

\* C5: when the native close returns a failure status the release logs a
\* warning, still leaves the handle null, and returns nothing to the caller.
C5_ReleaseNeverFails ==
    (lastOp.op = "drop" /\ lastOp.natives # <<>>
        /\ is_rc_err(lastOp.natives[1].ret)) =>
        /\ lastOp.warned
        /\ lastOp.result = "Unit"
        /\ conns[lastOp.conn].state = "released"
        /\ conns[lastOp.conn].handle = NULL

\* the native close has failed during a release
C5_Witness ==
    /\ lastOp.op = "drop"
    /\ lastOp.natives # <<>>
    /\ lastOp.natives[1].ret # RFC_OK
    /\ lastOp.warned

\* the keys set on the current builder and, for a key, the argument of the
\* last set_param call that named it
KeysSet == {setLog[i].key : i \in 1..Len(setLog)}
LastSet(k) ==
    LET at == {i \in 1..Len(setLog) : setLog[i].key = k}
    IN setLog[CHOOSE i \in at : \A j \in at : j <= i].value

\* whether every pair the builder stores can be encoded
AllEncode ==
    \A k \in KeysSet : from_str_ok(k) /\ from_str_ok(to_string(LastSet(k)))

\* C6: the parameters build hands to the native open hold exactly one pair
\* per distinct key that was set, whose value is the string form of the
\* value given by the last set_param call for that key.
C6_LastWriteWins ==
    (lastOp.op = "build" /\ lastOp.natives # <<>>) =>
        LET seen == lastOp.natives[1].params
        IN /\ Len(seen) = Cardinality(KeysSet)
           /\ \A k \in KeysSet :
                 Cardinality({i \in 1..Len(seen) : seen[i][1] = from_str(k)}) = 1
           /\ \A i \in 1..Len(seen) :
                 \E k \in KeysSet :
                    seen[i] = <<from_str(k), from_str(to_string(LastSet(k)))>>

\* a build reaches the native open after one key was set to two different
\* values
C6_Witness ==
    /\ lastOp.op = "build"
    /\ lastOp.natives # <<>>
    /\ \E i, j \in 1..Len(setLog) :
          /\ i < j
          /\ setLog[i].key = setLog[j].key
          /\ to_string(setLog[i].value) # to_string(setLog[j].value)

\* C7: when a stored key or value cannot be encoded, build returns the
\* encoding error of a stored string that cannot be encoded, calls no native
\* entry point and produces no connection.
C7_EncodingFailureAborts ==
    (lastOp.op = "build" /\ ~AllEncode) =>
        /\ lastOp.result = "ErrEncoding"
        /\ lastOp.natives = <<>>
        /\ lastOp.conn = 0
        /\ ~from_str_ok(lastOp.err)
        /\ \E k \in KeysSet : lastOp.err \in {k, to_string(LastSet(k))}

\* a build fails on one pair while another stored pair can be encoded
C7_Witness ==
    /\ lastOp.op = "build"
    /\ lastOp.result = "ErrEncoding"
    /\ \E k \in KeysSet : from_str_ok(k) /\ from_str_ok(to_string(LastSet(k)))

\* C8: when every stored pair can be encoded, one build makes exactly one
\* native call, to the native open, whatever that call returns and however
\* many parameters the builder holds.
C8_ExactlyOneOpen ==
    (lastOp.op = "build" /\ AllEncode) =>
        /\ Len(lastOp.natives) = 1
        /\ lastOp.natives[1].fn = "RfcOpenConnection"
        /\ Len(lastOp.natives[1].params) = Cardinality(KeysSet)

\* a builder with no parameters is built and the native open fails
C8_Witness ==
    /\ lastOp.op = "build"
    /\ setLog = <<>>
    /\ Len(lastOp.natives) = 1
    /\ lastOp.natives[1].ret = NULL

\* C9: get_function returns a function only when the descriptor lookup and
\* the function creation both returned non-null; every function that is
\* alive holds a non-null descriptor and a non-null function handle.
C9_FunctionNeedsBothHandles ==
    /\ lastOp.op = "get_function" =>
          (lastOp.result = "Ok" <=>
              /\ Len(CallsTo("RfcGetFunctionDesc")) = 1
              /\ CallsTo("RfcGetFunctionDesc")[1].ret # NULL
              /\ Len(CallsTo("RfcCreateFunction")) = 1
              /\ CallsTo("RfcCreateFunction")[1].ret # NULL)
    /\ \A f \in FuncIds :
          funcs[f].state = "live" => funcs[f].desc # NULL /\ funcs[f].func # NULL

\* the descriptor was found and the creation of the function returned null
C9_Witness ==
    /\ lastOp.op = "get_function"
    /\ Len(lastOp.natives) = 2
    /\ lastOp.natives[2].ret = NULL
    /\ lastOp.result = "ErrInfo"

\* C10: every call of the native ping, descriptor lookup and close is made
\* with a handle that the native open returned and that has not been closed
\* before the call.
C10_CallsOnOpenHandle ==
    [][\A i \in 1..Len(lastOp'.natives) :
          lastOp'.natives[i].fn \in
              {"RfcPing", "RfcGetFunctionDesc", "RfcCloseConnection"} =>
              /\ lastOp'.natives[i].handle \in Handles
              /\ native[lastOp'.natives[i].handle].st = "open"]_vars

\* a descriptor lookup is made on an open handle after another connection
\* was closed
C10_Witness ==
    /\ lastOp.op = "get_function"
    /\ lastOp.natives # <<>>
    /\ native[lastOp.natives[1].handle].st = "open"
    /\ \E h \in Handles : native[h].st = "closed"

\* C11: a ping whose native status is success returns success, and every
\* ping leaves the connection as it was: the same non-null handle, still
\* open in the library, and the same functions and builder; a ping that
\* follows a ping with the same status leaves the very same state.
C11_PingIdempotent ==
    [][lastOp'.op = "ping" =>
          LET c == lastOp'.conn
          IN /\ conns' = conns
             /\ funcs' = funcs
             /\ bld' = bld
             /\ native' = native
             /\ conns'[c].handle = lastOp'.before
             /\ conns'[c].handle # NULL
             /\ Len(lastOp'.natives) = 1
             /\ lastOp'.natives[1].ret = RFC_OK => lastOp'.result = "Ok"
             /\ (lastOp.op = "ping" /\ lastOp.conn = c
                    /\ lastOp.natives[1].ret = lastOp'.natives[1].ret) =>
                   lastOp' = lastOp]_vars

\* a ping has succeeded on a connection that still holds its handle
C11_Witness ==
    /\ lastOp.op = "ping"
    /\ lastOp.result = "Ok"
    /\ lastOp.natives[1].ret = RFC_OK
    /\ conns[lastOp.conn].handle = opened[lastOp.conn]

\* C12: every connection a successful open produced is released in the end,
\* whatever was done with it in between, and once it is released the native
\* close has been invoked on the handle its open returned.
C12_GuaranteedRelease ==
    /\ [](\A c \in ConnIds :
            conns[c].state = "released" =>
                /\ opened[c] \in Handles
                /\ native[opened[c]].st = "closed"
                /\ native[opened[c]].closes = 1)
    /\ \A c \in ConnIds :
          (conns[c].state = "live") ~>
              (conns[c].state = "released" /\ native[opened[c]].st = "closed")

\* a connection has been released and its handle closed while another
\* connection is still alive and open
C12_Witness ==
    /\ lastOp.op = "drop"
    /\ native[opened[lastOp.conn]].st = "closed"
    /\ \E c \in ConnIds : conns[c].state = "live" /\ native[opened[c]].st = "open"

\* C13: a thread is inside a native ping, descriptor lookup or close on a
\* connection's handle only while it owns that connection, so no two threads
\* are inside native calls on the same handle at the same time.
C13_OneThreadPerHandle ==
    /\ \A t \in Threads :
          busy[t] # Idle =>
              /\ owner[busy[t].conn] = t
              /\ conns[busy[t].conn].handle = busy[t].handle
              /\ busy[t].handle \in Handles
              /\ native[busy[t].handle].st = "open"
    /\ \A t1, t2 \in Threads :
          (t1 # t2 /\ busy[t1] # Idle /\ busy[t2] # Idle) =>
              busy[t1].handle # busy[t2].handle

\* a connection was sent to another thread, and that thread and a second
\* one are each inside a native call
C13_Witness ==
    /\ lastOp.op = "send"
    /\ busy[owner[lastOp.conn]].conn = lastOp.conn
    /\ \E t \in Threads : t # owner[lastOp.conn] /\ busy[t] # Idle

\* the result of building a builder on which only "dest" was set to name,
\* when the native open returns handle
BuiltForDest(name, handle) ==
    build_result(insert(EmptyParams, DestKey, to_string(StrValue(name))),
                 <<DestKey>>, handle)

\* C14: for every name, for_dest(name) does what building a builder with
\* only "dest" set to name does: the same encoding error, or one native open
\* with the single pair ("dest", name) and the same outcome for the same
\* returned handle.
C14_ForDestIsBuilder ==
    lastOp.op = "for_dest" =>
        /\ lastOp.natives # <<>> =>
              /\ Len(lastOp.natives) = 1
              /\ Len(lastOp.natives[1].params) = 1
              /\ lastOp.natives[1].params[1][1] = from_str(DestKey)
        /\ \E name \in NameInputs :
              LET handle == IF lastOp.natives = <<>> THEN NULL
                            ELSE lastOp.natives[1].ret
                  built == BuiltForDest(name, handle)
              IN /\ IF lastOp.natives = <<>> THEN lastOp.err = name
                    ELSE lastOp.natives[1].params[1][2] = from_str(name)
                 /\ lastOp.natives = built.natives
                 /\ lastOp.result = built.result
                 /\ lastOp.handle = built.handle
                 /\ lastOp.err = built.err
                 /\ "mem" \in DOMAIN built => lastOp.mem = built.mem

\* a for_dest has produced a connection
C14_Witness ==
    /\ lastOp.op = "for_dest"
    /\ lastOp.result = "Ok"
    /\ conns[lastOp.conn].handle = lastOp.natives[1].ret

\* C15: the builder's state and the parameters handed to the native open
\* depend on the values given to set_param through their string form alone:
\* the builder stores, per key, the string form of the last value given, and
\* the native open receives the encoding of that string.
C15_ValuesByStringForm ==
    /\ bld.live => bld.params = [k \in KeysSet |-> to_string(LastSet(k))]
    /\ (lastOp.op = "build" /\ lastOp.natives # <<>>) =>
          {lastOp.natives[1].params[i] : i \in 1..Len(lastOp.natives[1].params)}
              = {<<from_str(k), from_str(to_string(LastSet(k)))>> : k \in KeysSet}

\* the number 0 was given for a key and the builder holds the text "0", as
\* it would had the text "0" been given
C15_Witness ==
    /\ bld.live
    /\ \E k \in KeysSet :
          /\ LastSet(k) = IntValue(0)
          /\ bld.params[k] = StrValue(<<48>>).str
          /\ bld.params[k] = to_string(StrValue(<<48>>))

\* the native entry points
NativeFns ==
    {"RfcOpenConnection", "RfcPing", "RfcGetFunctionDesc", "RfcCreateFunction",
     "RfcCloseConnection"}

\* whether a native call reported failure: a null handle, or a status that
\* is not the success status
Failed(call) ==
    IF call.fn \in {"RfcPing", "RfcCloseConnection"}
    THEN is_rc_err(call.ret)
    ELSE call.ret = NULL

\* C16: within one open, ping or get_function every native entry point is
\* called at most once, and a native call that reports failure is the last
\* call of the operation, which returns that failure; so the function
\* creation is never called after a descriptor lookup that returned null.
C16_NoRetryShortCircuit ==
    lastOp.op \in {"build", "for_dest", "ping", "get_function"} =>
        /\ \A fn \in NativeFns : Len(CallsTo(fn)) <= 1
        /\ \A i \in 1..Len(lastOp.natives) :
              Failed(lastOp.natives[i]) =>
                  i = Len(lastOp.natives) /\ lastOp.result = "ErrInfo"
        /\ (lastOp.op = "get_function"
               /\ CallsTo("RfcCreateFunction") # <<>>) =>
              /\ Len(lastOp.natives) = 2
              /\ lastOp.natives[1].fn = "RfcGetFunctionDesc"
              /\ lastOp.natives[1].ret # NULL

\* a descriptor lookup has returned null and was the only native call
C16_Witness ==
    /\ lastOp.op = "get_function"
    /\ Len(lastOp.natives) = 1
    /\ lastOp.natives[1].fn = "RfcGetFunctionDesc"
    /\ lastOp.natives[1].ret = NULL
    /\ lastOp.result = "ErrInfo"

\* C17: when the native open is called, the descriptor array has one entry
\* per supplied pair, in the order supplied, and its count is the number of
\* pairs; every name and value address in it is that of the pair's own
\* buffer, which is allocated and holds the encoded string, so the library
\* reads what was supplied; the buffers are freed only after the call.
C17_BuffersOutliveOpen ==
    (IsOpen(lastOp.op) /\ lastOp.natives # <<>>) =>
        LET m == lastOp.mem
            n == Len(m.supplied)
        IN /\ n = (IF lastOp.op = "build" THEN Cardinality(KeysSet) ELSE 1)
           /\ m.count = n
           /\ Len(m.descriptors) = n
           /\ \A i \in 1..n :
                 LET d == m.descriptors[i]
                 IN /\ d.name = BufferAddr(i, 1)
                    /\ d.value = BufferAddr(i, 2)
                    /\ d.name \in DOMAIN m.atCall
                    /\ d.value \in DOMAIN m.atCall
                    /\ m.atCall[d.name] = [alloc |-> TRUE, data |-> m.supplied[i][1]]
                    /\ m.atCall[d.value] = [alloc |-> TRUE, data |-> m.supplied[i][2]]
                    /\ lastOp.natives[1].params[i] = m.supplied[i]
           /\ \A a \in DOMAIN m.atExit : ~m.atExit[a].alloc
           /\ \A i \in 1..n :
                 \E k \in (IF lastOp.op = "build" THEN KeysSet ELSE {DestKey}) :
                    m.supplied[i][1] = from_str(k)

\* a build has called the native open with two pairs
C17_Witness ==
    /\ lastOp.op = "build"
    /\ lastOp.natives # <<>>
    /\ lastOp.mem.count = 2
    /\ lastOp.mem.atCall[lastOp.mem.descriptors[2].value].alloc

\* C18: after a ping or a get_function that failed (at the encoding, at the
\* lookup or at the creation) the connection is alive with the handle it
\* had, no close was called on that handle, a further ping reaches the
\* library with it, and its release, once nothing borrows it, makes the one
\* close call on it.
C18_FailureLeavesConnection ==
    (lastOp.op \in {"ping", "get_function"} /\ lastOp.result # "Ok") =>
        LET c == lastOp.conn
            h == lastOp.before
        IN /\ conns[c] = [state |-> "live", handle |-> h]
           /\ h = opened[c]
           /\ h \in Handles
           /\ native[h] = [st |-> "open", closes |-> 0]
           /\ CallsTo("RfcCloseConnection") = <<>>
           /\ ENABLED (ping(c) /\ lastOp'.natives[1].handle = h)
           /\ Borrowers(c) = {} =>
                 /\ ENABLED drop(c)
                 /\ ~ ENABLED (drop(c) /\ native'[h].closes # 1)

\* a ping has failed and the connection still holds its handle
C18_Witness ==
    /\ lastOp.op = "ping"
    /\ lastOp.result = "ErrInfo"
    /\ conns[lastOp.conn].state = "live"
    /\ conns[lastOp.conn].handle = lastOp.before

\* whether a buffer is an encoded string: code units, then the terminator
Encoded(b) ==
    /\ Len(b) >= 1
    /\ b[Len(b)] = 0
    /\ \A i \in 1..Len(b) : b[i] \in 0..MaxCodeUnit

\* C19: a get_function or a for_dest whose name cannot be encoded returns
\* the encoding error of that name and calls no native entry point; every
\* string these operations hand to the library is an encoded buffer.
C19_EncodeBeforeNative ==
    lastOp.op \in {"get_function", "for_dest"} =>
        /\ lastOp.result = "ErrEncoding" =>
              /\ lastOp.natives = <<>>
              /\ lastOp.err \in NameInputs
              /\ ~from_str_ok(lastOp.err)
        /\ \A i \in 1..Len(lastOp.natives) :
              LET call == lastOp.natives[i]
              IN /\ call.fn = "RfcGetFunctionDesc" => Encoded(call.params[1])
                 /\ call.fn = "RfcOpenConnection" =>
                       \A j \in 1..Len(call.params) :
                          Encoded(call.params[j][1]) /\ Encoded(call.params[j][2])

\* a get_function was given a name that cannot be encoded
C19_Witness ==
    /\ lastOp.op = "get_function"
    /\ lastOp.result = "ErrEncoding"
    /\ lastOp.natives = <<>>
    /\ conns[lastOp.conn].state = "live"

====
